---------------------------- MODULE Spec2Model ----------------------------
(***************************************************************************)
(* FlexiQuote: the rule-evaluation engine (app/rules_engine.py) and the    *)
(* /configure and /quote handlers (app/main.py) over the rules table       *)
(* (app/models.py).                                                        *)
(*                                                                         *)
(* Money is an exact decimal in the code; here it is an integer number of  *)
(* cents.  A percentage is an integer number of percent.  A JSON value of  *)
(* a rule's condition or parameters is a tagged record, so that a missing  *)
(* key, a null and a wrong-typed value stay apart.                         *)
(***************************************************************************)
EXTENDS Integers, Sequences, FiniteSets

VARIABLES store, quotes, pc, loc

vars == <<store, quotes, pc, loc>>

(***************************************************************************)
(* Bounds of the model.                                                    *)
(***************************************************************************)
MaxRules == 2
MaxQty == 3
MaxQuotes == 1

(***************************************************************************)
(* JSON values.                                                            *)
(***************************************************************************)
Absent == [t |-> "absent", n |-> 0, s |-> ""]
Null == [t |-> "null", n |-> 0, s |-> ""]
Num(x) == [t |-> "num", n |-> x, s |-> ""]
Str(x) == [t |-> "str", n |-> 0, s |-> x]

NoTiers == [t |-> "absent", l |-> <<>>]
Tiers(l) == [t |-> "list", l |-> l]
NotAList == [t |-> "num", l |-> <<>>]
Tier(q, p) == [min_qty |-> q, percent_off |-> p]

EmptyMap == [k \in {} |-> Null]

\* dict.get(key): None for a key the mapping lacks
Get(m, k) == IF k \in DOMAIN m THEN m[k] ELSE Null

\* dict.get(key, 0) on a parameter slot
GetOr0(v) == IF v.t = "absent" THEN Num(0) ELSE v

\* Decimal(str(v)), int(v), float(v): a number parses, anything else raises.
\* The numbers of the model are whole (cents, percent, quantities), on which
\* int() and float() change nothing.
Parses(v) == v.t = "num"

\* Decimal.quantize(Decimal("0.01"), ROUND_HALF_UP) of num/den cents, den > 0:
\* to the nearest cent, a half away from zero
round_currency(num, den) ==
    IF num >= 0 THEN (2 * num + den) \div (2 * den)
    ELSE 0 - ((2 * (0 - num) + den) \div (2 * den))

\* float(Decimal) and Decimal(str(float)).  A double carries 15 significant
\* decimal digits and str() prints the shortest decimal that reads back as
\* the same double, so an amount of fewer than 10^15 cents comes back as it
\* went in; every amount of the model is below 2^31 cents.
to_float(cents) == cents

to_decimal(f) == f

\* int(Decimal): truncation toward zero, to whole currency units
int_of(cents) == IF cents >= 0 THEN cents \div 100 ELSE 0 - ((0 - cents) \div 100)

(***************************************************************************)
(* The rules table and the products table.                                 *)
(***************************************************************************)
NoCond == [product_id |-> Absent, min_qty |-> Absent, min_order_total |-> Absent,
           attributes |-> EmptyMap]
NoParams == [attribute |-> Absent, equals |-> Absent, amount |-> Absent,
             percentage |-> Absent, min_total |-> Absent, tiers |-> NoTiers,
             threshold |-> Absent]

Rule(type, cond, params, active, prio) ==
    [rule_type |-> type, condition |-> cond, parameters |-> params,
     is_active |-> active, priority |-> prio]

Row(id, r) ==
    [id |-> id, rule_type |-> r.rule_type, condition |-> r.condition,
     parameters |-> r.parameters, is_active |-> r.is_active, priority |-> r.priority]

Product == [p \in {1, 2} |-> [id |-> p, base_price |-> IF p = 1 THEN 500000 ELSE 150]]

AppliedRule(rule, amount) ==
    [id |-> rule.id, rule_type |-> rule.rule_type, amount |-> to_float(amount)]

(***************************************************************************)
(* PricingEngine.load_active_rules: the active rows, by priority, then id. *)
(***************************************************************************)
Before(a, b) == a.priority < b.priority \/ (a.priority = b.priority /\ a.id < b.id)

RECURSIVE order_by(_)
order_by(rows) ==
    IF rows = {} THEN <<>>
    ELSE LET first == CHOOSE r \in rows : \A o \in rows \ {r} : Before(r, o)
         IN <<first>> \o order_by(rows \ {first})

\* load_active_rules without the is_active filter
load_all_rules(table) ==
    order_by({table[i] : i \in 1..Len(table)})

load_active_rules(table) ==
    order_by({table[i] : i \in {j \in 1..Len(table) : table[j].is_active}})

(***************************************************************************)
(* PricingEngine._matches_condition.  quantity and order_total are passed  *)
(* as Absent by compute_config_adjustments.  The result is "true",         *)
(* "false" or "raise" (int() or float() of a value that is no number).     *)
(***************************************************************************)
matches_condition(rule, product_id, attributes, quantity, order_total) ==
    LET cond == rule.condition IN
    IF cond.product_id.t # "absent" /\ cond.product_id # Num(product_id) THEN "false"
    ELSE IF quantity.t # "absent" /\ cond.min_qty.t # "absent" /\ ~Parses(cond.min_qty)
        THEN "raise"
    ELSE IF quantity.t # "absent" /\ cond.min_qty.t # "absent" /\ quantity.n < cond.min_qty.n
        THEN "false"
    ELSE IF order_total.t # "absent" /\ cond.min_order_total.t # "absent"
            /\ ~Parses(cond.min_order_total)
        THEN "raise"
    ELSE IF order_total.t # "absent" /\ cond.min_order_total.t # "absent"
            /\ order_total.n < cond.min_order_total.n
        THEN "false"
    ELSE IF \E k \in DOMAIN cond.attributes : Get(attributes, k) # cond.attributes[k]
        THEN "false"
    ELSE "true"

(***************************************************************************)
(* PricingEngine.compute_config_adjustments.                               *)
(***************************************************************************)
Skip == [kind |-> "skip", amount |-> 0]
Raise == [kind |-> "raise", amount |-> 0]
Fire(a) == [kind |-> "fire", amount |-> a]

\* the body of the loop for one rule
config_rule(rule, product, attributes) ==
    LET params == rule.parameters IN
    IF rule.rule_type # "config_adjustment" THEN Skip
    ELSE IF matches_condition(rule, product.id, attributes, Absent, Absent) # "true" THEN Skip
    ELSE IF params.attribute.t \in {"absent", "null"} THEN Skip
    ELSE IF params.equals.t \notin {"absent", "null"}
            /\ Get(attributes, params.attribute.s) # params.equals THEN Skip
    ELSE IF ~Parses(GetOr0(params.amount)) \/ ~Parses(GetOr0(params.percentage)) THEN Raise
    ELSE LET amount == GetOr0(params.amount).n
             percentage == GetOr0(params.percentage).n
         IN Fire(round_currency(amount * 100 + product.base_price * percentage, 100))

\* config_loop keeping the last increment instead of the running sum
RECURSIVE config_loop_last(_, _, _, _, _, _)
config_loop_last(rules, i, product, attributes, total, applied) ==
    IF i > Len(rules)
    THEN [err |-> FALSE, total |-> round_currency(total, 1), applied |-> applied]
    ELSE LET step == config_rule(rules[i], product, attributes) IN
         IF step.kind = "raise" THEN [err |-> TRUE, total |-> 0, applied |-> <<>>]
         ELSE IF step.kind = "skip"
         THEN config_loop_last(rules, i + 1, product, attributes, total, applied)
         ELSE config_loop_last(rules, i + 1, product, attributes, step.amount,
                               Append(applied, AppliedRule(rules[i], step.amount)))

RECURSIVE config_loop(_, _, _, _, _, _)
config_loop(rules, i, product, attributes, total, applied) ==
    IF i > Len(rules)
    THEN [err |-> FALSE, total |-> round_currency(total, 1), applied |-> applied]
    ELSE LET step == config_rule(rules[i], product, attributes) IN
         IF step.kind = "raise" THEN [err |-> TRUE, total |-> 0, applied |-> <<>>]
         ELSE IF step.kind = "skip"
         THEN config_loop(rules, i + 1, product, attributes, total, applied)
         ELSE config_loop(rules, i + 1, product, attributes, total + step.amount,
                          Append(applied, AppliedRule(rules[i], step.amount)))

compute_config_adjustments(rules, product, attributes) ==
    config_loop(rules, 1, product, attributes, 0, <<>>)

(***************************************************************************)
(* PricingEngine.compute_discounts.                                        *)
(***************************************************************************)
\* tier_loop with a tier open only above its min_qty
RECURSIVE tier_loop_above(_, _, _, _)
tier_loop_above(tiers, i, quantity, best_percent) ==
    IF i > Len(tiers) THEN best_percent
    ELSE LET min_qty == GetOr0(tiers[i].min_qty)
             percent_off == GetOr0(tiers[i].percent_off)
         IN IF ~Parses(min_qty) \/ ~Parses(percent_off) THEN -1
            ELSE IF quantity > min_qty.n /\ percent_off.n > best_percent
            THEN tier_loop_above(tiers, i + 1, quantity, percent_off.n)
            ELSE tier_loop_above(tiers, i + 1, quantity, best_percent)

\* the scan of one rule's tiers: the best percent_off, or -1 when a tier raises
RECURSIVE tier_loop(_, _, _, _)
tier_loop(tiers, i, quantity, best_percent) ==
    IF i > Len(tiers) THEN best_percent
    ELSE LET min_qty == GetOr0(tiers[i].min_qty)
             percent_off == GetOr0(tiers[i].percent_off)
         IN IF ~Parses(min_qty) \/ ~Parses(percent_off) THEN -1
            ELSE IF quantity >= min_qty.n /\ percent_off.n > best_percent
            THEN tier_loop(tiers, i + 1, quantity, percent_off.n)
            ELSE tier_loop(tiers, i + 1, quantity, best_percent)

\* order_discount_rule without the test that the discount is positive
order_discount_rule_any_sign(params, subtotal) ==
    IF ~Parses(GetOr0(params.min_total)) THEN Raise
    ELSE IF subtotal < GetOr0(params.min_total).n THEN Skip
    ELSE IF ~Parses(GetOr0(params.percentage)) \/ ~Parses(GetOr0(params.amount)) THEN Raise
    ELSE LET percentage == GetOr0(params.percentage).n
             amount == GetOr0(params.amount).n
         IN Fire(round_currency(amount * 100 + subtotal * percentage, 100))

order_discount_rule(params, subtotal) ==
    IF ~Parses(GetOr0(params.min_total)) THEN Raise
    ELSE IF subtotal < GetOr0(params.min_total).n THEN Skip
    ELSE IF ~Parses(GetOr0(params.percentage)) \/ ~Parses(GetOr0(params.amount)) THEN Raise
    ELSE LET percentage == GetOr0(params.percentage).n
             amount == GetOr0(params.amount).n
             discount_value == round_currency(amount * 100 + subtotal * percentage, 100)
         IN IF discount_value > 0 THEN Fire(discount_value) ELSE Skip

tiered_discount_rule(params, quantity, subtotal) ==
    IF params.tiers.t = "absent" THEN Skip
    ELSE IF params.tiers.t # "list" THEN Raise
    ELSE LET best_percent == tier_loop(params.tiers.l, 1, quantity, 0) IN
         IF best_percent < 0 THEN Raise
         ELSE IF best_percent > 0
         THEN Fire(round_currency(subtotal * best_percent, 100))
         ELSE Skip

\* the body of the loop for one rule
discount_rule(rule, product, quantity, subtotal, attributes) ==
    IF rule.rule_type \notin {"order_discount", "tiered_discount"} THEN Skip
    ELSE LET m == matches_condition(rule, product.id, attributes, Num(quantity),
                                    Num(to_float(subtotal)))
         IN IF m = "raise" THEN Raise
            ELSE IF m = "false" THEN Skip
            ELSE IF rule.rule_type = "order_discount"
            THEN order_discount_rule(rule.parameters, subtotal)
            ELSE tiered_discount_rule(rule.parameters, quantity, subtotal)

\* the candidates, or err when a rule raises
RECURSIVE candidate_loop(_, _, _, _, _, _, _)
candidate_loop(rules, i, product, quantity, subtotal, attributes, candidates) ==
    IF i > Len(rules) THEN [err |-> FALSE, candidates |-> candidates]
    ELSE LET step == discount_rule(rules[i], product, quantity, subtotal, attributes) IN
         IF step.kind = "raise" THEN [err |-> TRUE, candidates |-> <<>>]
         ELSE IF step.kind = "skip"
         THEN candidate_loop(rules, i + 1, product, quantity, subtotal, attributes, candidates)
         ELSE candidate_loop(rules, i + 1, product, quantity, subtotal, attributes,
                             Append(candidates, AppliedRule(rules[i], step.amount)))

\* max_by_amount keeping the last of the largest
RECURSIVE max_by_amount_last(_, _, _)
max_by_amount_last(candidates, i, best) ==
    IF i > Len(candidates) THEN best
    ELSE IF to_decimal(candidates[i].amount) >= to_decimal(best.amount)
    THEN max_by_amount_last(candidates, i + 1, candidates[i])
    ELSE max_by_amount_last(candidates, i + 1, best)

\* max(candidates, key=amount): the first of the largest
RECURSIVE max_by_amount(_, _, _)
max_by_amount(candidates, i, best) ==
    IF i > Len(candidates) THEN best
    ELSE IF to_decimal(candidates[i].amount) > to_decimal(best.amount)
    THEN max_by_amount(candidates, i + 1, candidates[i])
    ELSE max_by_amount(candidates, i + 1, best)

compute_discounts(rules, product, quantity, subtotal, attributes) ==
    LET c == candidate_loop(rules, 1, product, quantity, subtotal, attributes, <<>>) IN
    IF c.err THEN [err |-> TRUE, discount |-> 0, applied |-> <<>>]
    ELSE IF c.candidates = <<>>
    THEN [err |-> FALSE, discount |-> 0, applied |-> <<>>]
    ELSE LET best == max_by_amount(c.candidates, 2, c.candidates[1]) IN
         [err |-> FALSE, discount |-> round_currency(to_decimal(best.amount), 1),
          applied |-> <<best>>]

(***************************************************************************)
(* PricingEngine.approval_status.  The threshold compared is the exact     *)
(* decimal (cents); the threshold returned is int(threshold).              *)
(***************************************************************************)
DEFAULT_THRESHOLD == 10000

\* the threshold the scan ends with (cents), or Null when Decimal(str(thr)) raises.
\* A rule whose parameters are empty has no threshold either.
RECURSIVE threshold_loop(_, _)
threshold_loop(rules, i) ==
    IF i > Len(rules) THEN Num(DEFAULT_THRESHOLD * 100)
    ELSE LET thr == rules[i].parameters.threshold IN
         IF rules[i].rule_type = "approval_threshold" /\ thr.t \notin {"absent", "null"}
         THEN (IF Parses(thr) THEN thr ELSE Null)
         ELSE threshold_loop(rules, i + 1)

\* approval_status asking for a total above the threshold
approval_status_above(rules, final_total) ==
    LET threshold == threshold_loop(rules, 1) IN
    IF threshold.t # "num" THEN [err |-> TRUE, status |-> "", threshold |-> 0]
    ELSE IF final_total > threshold.n
    THEN [err |-> FALSE, status |-> "manager_required", threshold |-> int_of(threshold.n)]
    ELSE [err |-> FALSE, status |-> "auto_approved", threshold |-> int_of(threshold.n)]

approval_status(rules, final_total) ==
    LET threshold == threshold_loop(rules, 1) IN
    IF threshold.t # "num" THEN [err |-> TRUE, status |-> "", threshold |-> 0]
    ELSE IF final_total >= threshold.n
    THEN [err |-> FALSE, status |-> "manager_required", threshold |-> int_of(threshold.n)]
    ELSE [err |-> FALSE, status |-> "auto_approved", threshold |-> int_of(threshold.n)]


(***************************************************************************)
(* Requests.  Upstream validation (schemas.QuoteRequest) lets through only *)
(* quantity >= 1; a product_id the products table lacks gives 404.         *)
(***************************************************************************)
AttrMaps == {EmptyMap, [k \in {"color"} |-> Str("red")]}

Request(p, q, a) == [product_id |-> p, quantity |-> q, attributes |-> a]

Requests ==
    {Request(p, q, a) : p \in DOMAIN Product, q \in 1..MaxQty, a \in AttrMaps}
        \cup {Request(9, 1, EmptyMap)}

\* schemas.PriceBreakdown
PriceBreakdown(subtotal, adjustments, discount, final_total, applied) ==
    [subtotal |-> to_float(subtotal), adjustments_total |-> to_float(adjustments),
     discount_total |-> to_float(discount), final_total |-> to_float(final_total),
     applied_rules |-> applied]

NoBreakdown == PriceBreakdown(0, 0, 0, 0, <<>>)

\* the handler's locals before its first statement
NoLoc ==
    [handler |-> "", status |-> 0, product_id |-> 0, quantity |-> 0,
     attributes |-> EmptyMap, adjustments |-> 0, applied_config |-> <<>>,
     subtotal |-> 0, discount |-> 0, applied_discount |-> <<>>, final_total |-> 0,
     approval |-> "", threshold |-> 0, breakdown |-> NoBreakdown, loads |-> <<>>]

Begin(handler, req) ==
    [NoLoc EXCEPT !.handler = handler, !.product_id = req.product_id,
                  !.quantity = req.quantity, !.attributes = req.attributes]

\* an unhandled exception: the framework answers 500
Failed(l, rules) == [l EXCEPT !.status = 500, !.loads = Append(l.loads, rules)]

(***************************************************************************)
(* quote, main.py lines 42-43, 44-45 and 46-78: each part runs the engine  *)
(* on the rules its own load_active_rules call returned.  loads records    *)
(* what each call returned.                                                *)
(***************************************************************************)
\* quote_adjust with the subtotal taken before the adjustments
quote_adjust_base_only(l, rules) ==
    LET product == Product[l.product_id]
        r == compute_config_adjustments(rules, product, l.attributes)
    IN IF r.err THEN Failed(l, rules)
       ELSE [l EXCEPT !.adjustments = r.total, !.applied_config = r.applied,
                      !.subtotal = product.base_price * l.quantity,
                      !.loads = Append(l.loads, rules)]

quote_adjust(l, rules) ==
    LET product == Product[l.product_id]
        r == compute_config_adjustments(rules, product, l.attributes)
    IN IF r.err THEN Failed(l, rules)
       ELSE [l EXCEPT !.adjustments = r.total, !.applied_config = r.applied,
                      !.subtotal = product.base_price * l.quantity + r.total,
                      !.loads = Append(l.loads, rules)]

quote_discount(l, rules) ==
    LET r == compute_discounts(rules, Product[l.product_id], l.quantity, l.subtotal,
                               l.attributes)
    IN IF r.err THEN Failed(l, rules)
       ELSE [l EXCEPT !.discount = r.discount, !.applied_discount = r.applied,
                      !.final_total = l.subtotal - r.discount,
                      !.loads = Append(l.loads, rules)]

quote_approve(l, rules) ==
    LET r == approval_status(rules, l.final_total)
    IN IF r.err THEN Failed(l, rules)
       ELSE [l EXCEPT !.approval = r.status, !.threshold = r.threshold, !.status = 200,
                      !.breakdown = PriceBreakdown(l.subtotal, l.adjustments, l.discount,
                                                   l.final_total,
                                                   l.applied_config \o l.applied_discount),
                      !.loads = Append(l.loads, rules)]

(***************************************************************************)
(* The handlers.                                                           *)
(***************************************************************************)
\* POST /configure
configure(req) ==
    /\ pc = "idle"
    /\ pc' = "done"
    /\ loc' = IF req.product_id \notin DOMAIN Product
              THEN [Begin("configure", req) EXCEPT !.status = 404]
              ELSE LET rules == load_active_rules(store)
                       r == compute_config_adjustments(rules, Product[req.product_id],
                                                       req.attributes)
                   IN IF r.err THEN Failed(Begin("configure", req), rules)
                      ELSE [Begin("configure", req) EXCEPT
                               !.status = 200, !.adjustments = r.total,
                               !.applied_config = r.applied,
                               !.loads = <<rules>>]
    /\ UNCHANGED <<store, quotes>>

\* POST /quote with no writer of the rules table running beside it
quote(req) ==
    /\ pc = "idle"
    /\ quotes < MaxQuotes
    /\ pc' = "done"
    /\ IF req.product_id \notin DOMAIN Product
       THEN loc' = [Begin("quote", req) EXCEPT !.status = 404]
       ELSE LET a == quote_adjust(Begin("quote", req), load_active_rules(store))
                d == IF a.status = 500 THEN a
                     ELSE quote_discount(a, load_active_rules(store))
            IN loc' = IF d.status = 500 THEN d
                      ELSE quote_approve(d, load_active_rules(store))
    /\ quotes' = IF loc'.status = 200 THEN quotes + 1 ELSE quotes
    /\ UNCHANGED store

\* POST /quote beside writers of the rules table: up to its first load
quote_begin(req) ==
    /\ pc = "idle"
    /\ quotes < MaxQuotes
    /\ IF req.product_id \notin DOMAIN Product
       THEN loc' = [Begin("quote", req) EXCEPT !.status = 404]
       ELSE loc' = quote_adjust(Begin("quote", req), load_active_rules(store))
    /\ pc' = IF loc'.status = 0 THEN "adjusted" ELSE "done"
    /\ UNCHANGED <<store, quotes>>

\* ... its second load
quote_discounts ==
    /\ pc = "adjusted"
    /\ loc' = quote_discount(loc, load_active_rules(store))
    /\ pc' = IF loc'.status = 0 THEN "discounted" ELSE "done"
    /\ UNCHANGED <<store, quotes>>

\* ... its third load, the quotes row and the response
quote_approval ==
    /\ pc = "discounted"
    /\ loc' = quote_approve(loc, load_active_rules(store))
    /\ pc' = "done"
    /\ quotes' = IF loc'.status = 200 THEN quotes + 1 ELSE quotes
    /\ UNCHANGED store

\* the response is sent; the next request may come
respond ==
    /\ pc = "done"
    /\ pc' = "idle"
    /\ loc' = NoLoc
    /\ UNCHANGED <<store, quotes>>

(***************************************************************************)
(* Writers of the rules table (the table is written outside the service:   *)
(* tests/test_app.py inserts rows through db_session_scope).               *)
(***************************************************************************)
create_rule(r) ==
    /\ Len(store) < MaxRules
    /\ store' = Append(store, Row(Len(store) + 1, r))
    /\ UNCHANGED <<pc, loc, quotes>>

\* an edit of a row's type, condition, parameters and priority, committed
\* between two requests
edit_rule(id, r) ==
    /\ pc = "idle"
    /\ id \in 1..Len(store)
    /\ store[id] # Row(id, [r EXCEPT !.is_active = store[id].is_active])
    /\ store' = [store EXCEPT ![id] = Row(id, [r EXCEPT !.is_active = store[id].is_active])]
    /\ UNCHANGED <<pc, loc, quotes>>

set_active(id, b) ==
    /\ id \in 1..Len(store)
    /\ store[id].is_active # b
    /\ store' = [store EXCEPT ![id].is_active = b]
    /\ UNCHANGED <<pc, loc, quotes>>


(***************************************************************************)
(* The rules the writers insert.  The first four are the rows of           *)
(* tests/test_app.py (scaled to the products above); the others are the    *)
(* shapes the engine branches on.                                          *)
(***************************************************************************)
Color == Str("color")

RedMarkup ==
    Rule("config_adjustment", [NoCond EXCEPT !.product_id = Num(2)],
         [NoParams EXCEPT !.attribute = Color, !.equals = Str("red"), !.amount = Num(1000)],
         TRUE, 10)
HighValue ==
    Rule("order_discount",
         [NoCond EXCEPT !.product_id = Num(1), !.min_order_total = Num(1000000)],
         [NoParams EXCEPT !.percentage = Num(10)], TRUE, 20)
VolumeTier ==
    Rule("tiered_discount", NoCond,
         [NoParams EXCEPT !.tiers = Tiers(<<Tier(Num(2), Num(5)), Tier(Num(3), Num(12))>>)],
         TRUE, 30)
ApprovalRule ==
    Rule("approval_threshold", [NoCond EXCEPT !.product_id = Num(1)],
         [NoParams EXCEPT !.threshold = Num(450)], TRUE, 100)

Surcharge ==
    Rule("config_adjustment", NoCond,
         [NoParams EXCEPT !.attribute = Color, !.percentage = Num(15)], TRUE, 5)
NullAttr ==
    Rule("config_adjustment", [NoCond EXCEPT !.attributes = [k \in {"color"} |-> Null]],
         [NoParams EXCEPT !.attribute = Color, !.amount = Num(500)], TRUE, 10)
Rebate ==
    Rule("config_adjustment", NoCond,
         [NoParams EXCEPT !.attribute = Color, !.equals = Str("red"), !.amount = Num(-60000)],
         TRUE, 10)
BadAmount ==
    Rule("config_adjustment", NoCond,
         [NoParams EXCEPT !.attribute = Color, !.amount = Str("abc")], TRUE, 10)
NoAttribute ==
    Rule("config_adjustment", NoCond, [NoParams EXCEPT !.amount = Num(1000)], TRUE, 10)
Retired ==
    Rule("config_adjustment", NoCond,
         [NoParams EXCEPT !.attribute = Color, !.amount = Num(700)], FALSE, 1)
FlatOff ==
    Rule("order_discount", NoCond,
         [NoParams EXCEPT !.min_total = Num(300), !.amount = Num(40000)], TRUE, 20)
TwelveLessFee ==
    Rule("order_discount", NoCond,
         [NoParams EXCEPT !.percentage = Num(12), !.amount = Num(-50)], TRUE, 20)
TierDown ==
    Rule("tiered_discount", [NoCond EXCEPT !.min_qty = Num(2)],
         [NoParams EXCEPT !.tiers = Tiers(<<Tier(Num(3), Num(12)), Tier(Num(2), Num(5))>>)],
         TRUE, 15)
BadTiers ==
    Rule("tiered_discount", NoCond, [NoParams EXCEPT !.tiers = NotAList], TRUE, 30)
FirstThreshold ==
    Rule("approval_threshold", NoCond, [NoParams EXCEPT !.threshold = Num(451)], TRUE, 5)
NoThreshold ==
    Rule("approval_threshold", NoCond, NoParams, TRUE, 1)
BadThreshold ==
    Rule("approval_threshold", NoCond, [NoParams EXCEPT !.threshold = Str("abc")], TRUE, 50)

Catalog ==
    {RedMarkup, HighValue, VolumeTier, ApprovalRule, Surcharge, NullAttr, Rebate,
     BadAmount, NoAttribute, Retired, FlatOff, TwelveLessFee, TierDown, BadTiers,
     FirstThreshold, NoThreshold, BadThreshold}

\* a rules table of the given rows, ids from 1 in the order of insertion
Table(rs) == [i \in 1..Len(rs) |-> Row(i, rs[i])]

Tables == UNION {{Table(rs) : rs \in [1..n -> Catalog]} : n \in 0..MaxRules}

(***************************************************************************)
(* The service beside writers of the rules table: the table starts empty;  *)
(* rows are inserted, deactivated and activated while requests run, and    *)
(* edited between requests.                                                *)
(***************************************************************************)
LiveRules == {RedMarkup, TwelveLessFee, ApprovalRule}

LiveRequests == {r \in Requests : r.quantity = MaxQty /\ r.product_id # 1}

Init ==
    /\ store = <<>>
    /\ quotes = 0
    /\ pc = "idle"
    /\ loc = NoLoc

Next ==
    \/ \E r \in LiveRules : create_rule(r)
    \/ \E id \in 1..MaxRules, r \in LiveRules : edit_rule(id, r)
    \/ \E id \in 1..MaxRules, b \in BOOLEAN : set_active(id, b)
    \/ \E req \in LiveRequests : configure(req)
    \/ \E req \in LiveRequests : quote_begin(req)
    \/ quote_discounts
    \/ quote_approval
    \/ respond

Spec == Init /\ [][Next]_vars

(***************************************************************************)
(* The engine on every rules table of the catalog, one request each.       *)
(***************************************************************************)
InitEngine ==
    /\ store \in Tables
    /\ quotes = 0
    /\ pc = "idle"
    /\ loc = NoLoc

NextEngine ==
    \/ \E req \in Requests : configure(req)
    \/ \E req \in Requests : quote(req)

SpecEngine == InitEngine /\ [][NextEngine]_vars


(***************************************************************************)
(* Properties.                                                             *)
(***************************************************************************)
QuoteDone == pc = "done" /\ loc.handler = "quote" /\ loc.status = 200

\* the first call of the handler, compute_config_adjustments, has returned
AdjustmentsReturned ==
    /\ pc = "done"
    /\ loc.status = 200 \/ (loc.status = 500 /\ Len(loc.loads) >= 2)

\* the second call of /quote, compute_discounts, has returned
DiscountsReturned ==
    /\ pc = "done" /\ loc.handler = "quote"
    /\ loc.status = 200 \/ (loc.status = 500 /\ Len(loc.loads) >= 3)

ActiveIds == {i \in 1..Len(store) : store[i].is_active}

Range(seq) == {seq[i] : i \in 1..Len(seq)}

\* the entries of a list of applied rules follow the evaluation order
InEvaluationOrder(applied) ==
    \A k, m \in 1..Len(applied) :
        k < m => Before(store[applied[k].id], store[applied[m].id])

(* C1: the breakdown of every answered quote satisfies
   subtotal = base_price * quantity + adjustments_total and
   final_total = subtotal - discount_total, to the cent. *)
C1_BreakdownAddsUp ==
    QuoteDone =>
        /\ loc.breakdown.subtotal
              = Product[loc.product_id].base_price * loc.quantity
                + loc.breakdown.adjustments_total
        /\ loc.breakdown.final_total
              = loc.breakdown.subtotal - loc.breakdown.discount_total

C1_Witness ==
    /\ QuoteDone
    /\ loc.breakdown.adjustments_total # 0
    /\ loc.breakdown.discount_total # 0

\* a config_adjustment rule fires: its condition holds on {product_id,
\* attributes}, parameters.attribute is there and the equals test passes
C7_Fires(rule) ==
    /\ rule.rule_type = "config_adjustment"
    /\ matches_condition(rule, loc.product_id, loc.attributes, Absent, Absent) = "true"
    /\ rule.parameters.attribute.t = "str"
    /\ \/ rule.parameters.equals.t \in {"absent", "null"}
       \/ /\ rule.parameters.attribute.s \in DOMAIN loc.attributes
          /\ loc.attributes[rule.parameters.attribute.s] = rule.parameters.equals

\* hundredths of a cent to cents, the nearest, a half away from zero
HalfUp(hundredths) ==
    LET cents == hundredths \div 100   \* rounded down
        rest == hundredths % 100       \* 0..99
    IN IF hundredths >= 0 THEN (IF rest >= 50 THEN cents + 1 ELSE cents)
       ELSE (IF rest > 50 THEN cents + 1 ELSE cents)

\* amount + base_price * percentage / 100, rounded half-up to the cent
C7_Increment(rule) ==
    HalfUp(GetOr0(rule.parameters.amount).n * 100
           + Product[loc.product_id].base_price * GetOr0(rule.parameters.percentage).n)

C7_Firing == {i \in ActiveIds : C7_Fires(store[i])}

RECURSIVE C7_Sum(_)
C7_Sum(ids) ==
    IF ids = {} THEN 0
    ELSE LET i == CHOOSE j \in ids : TRUE IN C7_Increment(store[i]) + C7_Sum(ids \ {i})

(* C7: compute_config_adjustments returns the sum of the individually
   rounded increments of every active config_adjustment rule that fires, and
   one applied entry for each of them, in evaluation order (priority, then
   id). *)
C7_AdjustmentsStack ==
    AdjustmentsReturned =>
        /\ loc.adjustments = C7_Sum(C7_Firing)
        /\ Len(loc.applied_config) = Cardinality(C7_Firing)
        /\ {a.id : a \in Range(loc.applied_config)} = C7_Firing
        /\ \A a \in Range(loc.applied_config) :
              a.amount = C7_Increment(store[a.id]) /\ a.rule_type = "config_adjustment"
        /\ InEvaluationOrder(loc.applied_config)

\* two rules fire, the later row first, one increment rounded up from a half
C7_Witness ==
    /\ AdjustmentsReturned
    /\ Len(loc.applied_config) = 2
    /\ loc.applied_config[1].id > loc.applied_config[2].id
    /\ loc.applied_config[1].amount # 0 /\ loc.applied_config[2].amount # 0
    /\ \E a \in Range(loc.applied_config) :
          (Product[loc.product_id].base_price
             * GetOr0(store[a.id].parameters.percentage).n) % 100 = 50

\* what the rule at place i of the list compute_discounts loaded contributes
C3_Step(i) ==
    discount_rule(loc.loads[2][i], Product[loc.product_id], loc.quantity, loc.subtotal,
                  loc.attributes)

C3_Candidates == {i \in 1..Len(loc.loads[2]) : C3_Step(i).kind = "fire"}

(* C3: compute_discounts returns at most one applied rule: none and a
   discount of 0 when there is no candidate; otherwise one candidate whose
   amount is at least every candidate's, and which comes before (priority,
   then id) every other candidate of the same amount. *)
C3_BestDiscount ==
    DiscountsReturned =>
        /\ Len(loc.applied_discount) <= 1
        /\ C3_Candidates = {} => loc.applied_discount = <<>> /\ loc.discount = 0
        /\ C3_Candidates # {} =>
              \E i \in C3_Candidates :
                  /\ loc.applied_discount
                        = <<[id |-> loc.loads[2][i].id,
                             rule_type |-> loc.loads[2][i].rule_type,
                             amount |-> C3_Step(i).amount]>>
                  /\ loc.discount = C3_Step(i).amount
                  /\ \A j \in C3_Candidates \ {i} :
                        \/ C3_Step(j).amount < C3_Step(i).amount
                        \/ /\ C3_Step(j).amount = C3_Step(i).amount
                           /\ Before(loc.loads[2][i], loc.loads[2][j])

\* two candidates of equal amounts, an order_discount or a tiered_discount
\* each, the one that wins being the later row
C3_Witness ==
    /\ DiscountsReturned
    /\ \E i, j \in C3_Candidates :
          /\ i # j
          /\ C3_Step(i).amount = C3_Step(j).amount
          /\ loc.applied_discount # <<>>
          /\ loc.applied_discount[1].id = loc.loads[2][i].id
          /\ loc.loads[2][i].id > loc.loads[2][j].id

\* the active approval_threshold rules that have a threshold
C5_WithThreshold ==
    {i \in ActiveIds : /\ store[i].rule_type = "approval_threshold"
                       /\ store[i].parameters.threshold.t \notin {"absent", "null"}}

C5_First == {i \in C5_WithThreshold : \A j \in C5_WithThreshold \ {i} : Before(store[i], store[j])}

\* the threshold in cents: of the first such rule, or the default
C5_Threshold ==
    IF C5_First = {} THEN 1000000
    ELSE (LET i == CHOOSE j \in C5_First : TRUE IN store[i].parameters.threshold.n)

(* C5 as stated: approval_status returns (status, threshold) where
   threshold is parameters.threshold of the first active approval_threshold
   rule that has one, or 10000, and status is manager_required iff
   final_total >= threshold. *)
C5_AsStated ==
    QuoteDone =>
        /\ loc.threshold * 100 = C5_Threshold
        /\ loc.approval = "manager_required" <=> loc.final_total >= loc.threshold * 100
        /\ loc.approval \in {"manager_required", "auto_approved"}

(* C5 amended: status is manager_required iff final_total >= T and
   auto_approved otherwise, T being parameters.threshold of the first active
   approval_threshold rule (priority, then id) that has one, whatever its
   condition, or 10000; the threshold returned is T truncated to an
   integer. *)
C5_ApprovalAtThreshold ==
    QuoteDone =>
        /\ loc.approval = "manager_required" <=> loc.final_total >= C5_Threshold
        /\ loc.approval \in {"manager_required", "auto_approved"}
        /\ loc.threshold * 100 <= C5_Threshold
        /\ C5_Threshold < loc.threshold * 100 + 100

\* final_total equal to the threshold of a rule whose condition names another
\* product, evaluated after an approval_threshold rule that has no threshold
C5_Witness ==
    /\ QuoteDone
    /\ loc.final_total = C5_Threshold
    /\ loc.approval = "manager_required"
    /\ \E i \in C5_First, j \in ActiveIds :
          /\ store[i].condition.product_id.t = "num"
          /\ store[i].condition.product_id.n # loc.product_id
          /\ store[j].rule_type = "approval_threshold"
          /\ store[j].parameters.threshold.t = "absent"
          /\ Before(store[j], store[i])

(* C10 as stated: the chosen discount of every quote satisfies
   0 <= discount_total <= subtotal, so final_total is never negative. *)
C10_AsStated ==
    QuoteDone =>
        /\ 0 <= loc.breakdown.discount_total
        /\ loc.breakdown.discount_total <= loc.breakdown.subtotal
        /\ 0 <= loc.breakdown.final_total

(* C10 amended: for every quote whose subtotal is >= 0 the chosen discount
   is >= 0, so final_total never exceeds subtotal; the discount is not
   capped at the subtotal. *)
C10_DiscountNotNegative ==
    QuoteDone /\ loc.breakdown.subtotal >= 0 =>
        /\ 0 <= loc.breakdown.discount_total
        /\ loc.breakdown.final_total <= loc.breakdown.subtotal

\* a discount above a subtotal that is not negative
C10_Witness ==
    /\ QuoteDone
    /\ loc.breakdown.subtotal >= 0
    /\ loc.breakdown.discount_total > loc.breakdown.subtotal
    /\ loc.breakdown.final_total < 0

\* the tiers of a rule that are open at the quantity of the request
C8_Qualifying(rule) ==
    {t \in Range(rule.parameters.tiers.l) : GetOr0(t.min_qty).n <= loc.quantity}

\* the highest percent_off among them, 0 when there is none above 0
C8_Best(rule) ==
    LET offs == {GetOr0(t.percent_off).n : t \in C8_Qualifying(rule)} \cup {0}
    IN CHOOSE p \in offs : \A q \in offs : q <= p

C8_Tiered ==
    {i \in ActiveIds :
        /\ store[i].rule_type = "tiered_discount"
        /\ matches_condition(store[i], loc.product_id, loc.attributes, Num(loc.quantity),
                             Num(loc.subtotal)) = "true"}

(* C8: a tiered_discount rule whose condition matches is a candidate exactly
   when the highest percent_off among its tiers with min_qty <= quantity is
   above 0, with the amount round(subtotal * best / 100, 2), whatever the
   order of the tiers: the discount chosen is at least that amount, and when
   the rule is the one applied its amount is that amount. *)
C8_HighestQualifyingTier ==
    DiscountsReturned =>
        \A i \in C8_Tiered :
            LET best == C8_Best(store[i])
                amount == HalfUp(loc.subtotal * best)
            IN /\ best > 0 => loc.applied_discount # <<>> /\ loc.discount >= amount
               /\ loc.applied_discount # <<>> /\ loc.applied_discount[1].id = i
                    => best > 0 /\ loc.applied_discount[1].amount = amount
               /\ best = 0 /\ (\A j \in ActiveIds \ {i} :
                                  store[j].rule_type \notin {"order_discount", "tiered_discount"})
                    => loc.applied_discount = <<>> /\ loc.discount = 0

\* the applied rule is a tiered rule whose best tier starts exactly at the
\* quantity asked for and is listed before a lower tier that is open too
C8_Witness ==
    /\ DiscountsReturned
    /\ loc.applied_discount # <<>>
    /\ loc.subtotal > 0
    /\ \E i \in C8_Tiered :
          /\ loc.applied_discount[1].id = i
          /\ LET tiers == store[i].parameters.tiers.l IN
             \E k, m \in 1..Len(tiers) :
                 /\ k < m
                 /\ tiers[k].min_qty.n = loc.quantity
                 /\ tiers[k].percent_off.n = C8_Best(store[i])
                 /\ tiers[m].min_qty.n < loc.quantity
                 /\ tiers[m].percent_off.n < tiers[k].percent_off.n
                 /\ tiers[m].percent_off.n > 0

(* C9: a rule whose condition.attributes names a key the request's
   attributes lack does not match, whatever the expected value (null
   included), and does not fire. *)
C9_AbsentKeyNeverMatches ==
    AdjustmentsReturned =>
        \A a \in Range(loc.applied_config) \cup Range(loc.applied_discount) :
            DOMAIN store[a.id].condition.attributes \subseteq DOMAIN loc.attributes

\* every value the engine parses as a number is a number
C4_WellFormed(rule) ==
    LET c == rule.condition
        p == rule.parameters
        number(v) == v.t \in {"absent", "num"}
    IN /\ number(c.min_qty) /\ number(c.min_order_total)
       /\ number(p.amount) /\ number(p.percentage) /\ number(p.min_total)
       /\ p.threshold.t \in {"absent", "null", "num"}
       /\ p.tiers.t \in {"absent", "list"}
       /\ \A t \in Range(p.tiers.l) : number(t.min_qty) /\ number(t.percent_off)

\* the table without its malformed rules
C4_Table ==
    [i \in 1..Len(store) |->
        IF C4_WellFormed(store[i]) THEN store[i] ELSE [store[i] EXCEPT !.is_active = FALSE]]

C4_Expected ==
    LET rules == load_active_rules(C4_Table)
        req == Request(loc.product_id, loc.quantity, loc.attributes)
    IN IF loc.handler = "configure"
       THEN quote_adjust(Begin("configure", req), rules)
       ELSE quote_approve(quote_discount(quote_adjust(Begin("quote", req), rules), rules),
                          rules)

(* C4: whatever the active rules, malformed ones included, the engine's three
   functions complete without raising, and their results are those computed
   without the malformed rules. *)
C4_MalformedRuleDoesNotFire ==
    pc = "done" /\ loc.status # 404 =>
        /\ loc.status = 200
        /\ loc.adjustments = C4_Expected.adjustments
        /\ loc.applied_config = C4_Expected.applied_config
        /\ loc.discount = C4_Expected.discount
        /\ loc.applied_discount = C4_Expected.applied_discount
        /\ loc.approval = C4_Expected.approval
        /\ loc.threshold = C4_Expected.threshold

\* the whole /quote of the request in loc on one list of rules
QuoteOn(rules) ==
    quote_approve(
        quote_discount(
            quote_adjust(Begin("quote", Request(loc.product_id, loc.quantity, loc.attributes)),
                         rules),
            rules),
        rules)

(* C2: the adjustments, the discount and the approval of one /quote are
   evaluated against one active-rule set: the quote answered is the quote of
   a rule set the request loaded, never a mix of two. *)
C2_OneRuleSetPerQuote ==
    QuoteDone =>
        \E rules \in Range(loc.loads) :
            /\ QuoteOn(rules).breakdown = loc.breakdown
            /\ QuoteOn(rules).approval = loc.approval

\* the rules a step of a handler has just loaded
Loaded(l) == l.loads[Len(l.loads)]

(* C6: every computation uses exactly the rules active in the table when it
   starts: what it loads is the set of rows with is_active, whatever was
   created, deactivated or activated before, and no row with is_active false
   adds an applied entry. *)
C6_NoCaching ==
    [][Len(loc'.loads) > Len(loc.loads) =>
          /\ Range(Loaded(loc')) = {store[i] : i \in ActiveIds}
          /\ \A a \in (Range(loc'.applied_config) \ Range(loc.applied_config))
                       \cup (Range(loc'.applied_discount) \ Range(loc.applied_discount)) :
                a.id \in ActiveIds]_vars

\* a quote answered without the entry of a row that would fire but was
\* deactivated before the request began (a later row was loaded)
C6_Witness ==
    /\ QuoteDone
    /\ \E i, j \in 1..Len(store) :
          /\ i < j
          /\ ~store[i].is_active
          /\ C7_Fires(store[i])
          /\ store[j] \in Range(loc.loads[1])
          /\ \A k \in 1..3 : \A r \in Range(loc.loads[k]) : r.id # i
          /\ \A a \in Range(loc.breakdown.applied_rules) : a.id # i

=============================================================================
